---- MODULE Spec2Model ----
(***************************************************************************)
(* A model of the Agilent PAD parser library (tools/agilent_pad/src/lib.rs) *)
(* and of the part of the pad2pcapng example that consumes it.              *)
(*                                                                          *)
(* Number representation.  TLC's integers are 32-bit signed, so a u32 or a  *)
(* u64 of the program cannot be a TLC integer.  A fixed-width unsigned      *)
(* integer wider than 16 bits is a sequence of 16-bit limbs, most           *)
(* significant limb first: a u32 is <<h, l>> and denotes h * 2^16 + l, a    *)
(* u64 is <<l3, l2, l1, l0>>.  A u16 and a byte are plain naturals.  Every  *)
(* width of the program is kept.                                            *)
(***************************************************************************)
EXTENDS Integers, Sequences, FiniteSets, TLC

VARIABLES
    \* ---- PadFile::from_filename and the Records iterator (Spec)
    fpc,                \* "start", "header" (in from_bufreader), "open",
                        \* "io_error" (Err returned), "panicked"
    overflow_checks,    \* whether the build panics on integer overflow
    header,             \* PadFile.header
    curr,               \* Records.curr
    last,               \* Records.last
    rpos,               \* the stream position of Records.reader
    rfile,              \* the 40-byte blocks of the file from records_offset
                        \* on, as far as they have been read
    call,               \* the latest call of Records::next: what it found
                        \* and what it did
    yielded,            \* the records returned so far, in order
    \* ---- RecordReader (Spec, SpecFetch)
    dpos,               \* the stream position of RecordReader.data_reader
    curr_data_offset,   \* RecordReader.curr_data_offset
    fetch,              \* the latest call of get_data_for_record: what it
                        \* was given and what it did
    \* ---- the record loop of pad2pcapng's main (SpecConvert)
    comments,           \* for each record encoded so far, in order, whether
                        \* the trigger comment was attached to its block
    \* ---- Record::from_slice applied to one slice (SpecDecode)
    slice,              \* the input &[u8]
    decoded,            \* the outcome of Record::from_slice, once called
    written,            \* the metadata_info value the encoder wrote, or -1
    \* ---- PadHeader::from_bufreader, one step of its loop at a time (SpecHeader)
    stream,             \* the bytes of the source behind pad_reader
    hstart,             \* the stream position at the call of from_bufreader
    spos,               \* pad_reader's stream position (bytes from the start)
    buffer,             \* the working buffer
    expand,             \* the growth of the next resize
    hpc,                \* position in from_bufreader
    hresult,            \* what from_bufreader returned
    iters               \* completed passes of the loop body

fileVars == <<fpc, overflow_checks, header, curr, last, rpos, rfile, call,
              yielded>>
readerVars == <<dpos, curr_data_offset, fetch>>
convVars == <<comments>>
decodeVars == <<slice, decoded, written>>
headerVars == <<stream, hstart, spos, buffer, expand, hpc, hresult, iters>>
vars == <<fpc, overflow_checks, header, curr, last, rpos, rfile, call, yielded,
          dpos, curr_data_offset, fetch, comments,
          slice, decoded, written, stream, hstart, spos, buffer, expand, hpc, hresult, iters>>

----------------------------------------------------------------------------
(* Fixed-width arithmetic on limbs *)

LimbBits == 8 * 2

RECURSIVE Pow2(_)
Pow2(n) == IF n = 0 THEN 1 ELSE 2 * Pow2(n - 1)

\* Bitwise AND and OR of two naturals below 2^bits.
LimbBase == Pow2(LimbBits)
LimbMax == LimbBase - 1

RECURSIVE BitAnd(_, _, _)
BitAnd(a, b, bits) ==
    IF bits = 0 THEN 0
    ELSE (IF a % 2 = 1 /\ b % 2 = 1 THEN 1 ELSE 0)
         + 2 * BitAnd(a \div 2, b \div 2, bits - 1)

RECURSIVE BitOr(_, _, _)
BitOr(a, b, bits) ==
    IF bits = 0 THEN 0
    ELSE (IF a % 2 = 1 \/ b % 2 = 1 THEN 1 ELSE 0)
         + 2 * BitOr(a \div 2, b \div 2, bits - 1)

\* A word of n limbs, all zero.
ZeroLimbs(n) == [i \in 1..n |-> 0]

\* <u32 as Into<u64>>::into: zero extension to four limbs.
U32IntoU64(x) == ZeroLimbs(2) \o x

\* A word shifted left by n bits within its own width (bits shifted out are
\* lost), limb i taking its bits from limbs i + n \div 16 and the one after.
ShlLimbs(x, n) ==
    LET q == n \div LimbBits
        r == n % LimbBits
        at(i) == IF i <= Len(x) THEN x[i] ELSE 0
    IN  [i \in 1..Len(x) |->
            ((at(i + q) * Pow2(r)) % LimbBase)
            + (at(i + q + 1) \div Pow2(LimbBits - r))]

\* u64::checked_shl: None when the shift is not smaller than the width.
CheckedShl(x, n) ==
    IF n >= LimbBits * Len(x) THEN [some |-> FALSE]
    ELSE [some |-> TRUE, val |-> ShlLimbs(x, n)]

\* Limb-wise bitwise OR of two words of the same width.
OrLimbs(x, y) == [i \in 1..Len(x) |-> BitOr(x[i], y[i], LimbBits)]

U32Bits == 32

\* The mutant of u32_hi_lo_to_u64: the high half shifted by 16 bits only.
u32_hi_lo_to_u64_shift16(hi, lo) ==
    OrLimbs(ShlLimbs(U32IntoU64(hi), 16), U32IntoU64(lo))

\* fn u32_hi_lo_to_u64(hi: u32, lo: u32) -> u64.  The empty word stands for
\* the panic of unwrap on a None from checked_shl.
u32_hi_lo_to_u64(hi, lo) ==
    LET s == CheckedShl(U32IntoU64(hi), U32Bits)
    IN  IF s.some THEN OrLimbs(s.val, U32IntoU64(lo)) ELSE <<>>

----------------------------------------------------------------------------
(* nom's streaming parsers, as the library uses them.  A parser takes the   *)
(* remaining input and yields Ok(rest, value) or Incomplete(needed).        *)
(* Where a result is used more than once it is bound as the element of a    *)
(* singleton set (x \in {e}), which makes TLC compute it once.              *)

POk(rest, val) == [ok |-> TRUE, rest |-> rest, val |-> val]
PIncomplete(n) == [ok |-> FALSE, need |-> n]

Drop(input, n) == SubSeq(input, n + 1, Len(input))

\* The first n bytes of the input, or how many are missing.
TakeBytes(input, n) ==
    IF Len(input) < n THEN PIncomplete(n - Len(input))
    ELSE POk(Drop(input, n), SubSeq(input, 1, n))

\* The limbs of a little-endian byte string of even length: the last two
\* bytes make the most significant limb.
RECURSIVE LeLimbs(_)
LeLimbs(b) ==
    IF Len(b) = 0 THEN <<>>
    ELSE LeLimbs(Drop(b, 2)) \o <<b[2] * 256 + b[1]>>

\* The limbs of a big-endian byte string of even length.
RECURSIVE BeLimbs(_)
BeLimbs(b) ==
    IF Len(b) = 0 THEN <<>>
    ELSE <<b[1] * 256 + b[2]>> \o BeLimbs(Drop(b, 2))

\* 16-bit and 32-bit little-endian, 16-, 32- and 64-bit big-endian integers.
le_u16(input) ==
    LET t == TakeBytes(input, 2)
    IN  IF t.ok THEN POk(t.rest, LeLimbs(t.val)[1]) ELSE t

\* The mutant of le_u32: the four bytes read big-endian.
le_u32_big_endian(input) ==
    LET t == TakeBytes(input, 4)
    IN  IF t.ok THEN POk(t.rest, BeLimbs(t.val)) ELSE t

le_u32(input) ==
    LET t == TakeBytes(input, 4)
    IN  IF t.ok THEN POk(t.rest, LeLimbs(t.val)) ELSE t

be_u16(input) ==
    LET t == TakeBytes(input, 2)
    IN  IF t.ok THEN POk(t.rest, BeLimbs(t.val)[1]) ELSE t

be_u32(input) ==
    LET t == TakeBytes(input, 4)
    IN  IF t.ok THEN POk(t.rest, BeLimbs(t.val)) ELSE t

be_u64(input) ==
    LET t == TakeBytes(input, 8)
    IN  IF t.ok THEN POk(t.rest, BeLimbs(t.val)) ELSE t

\* fn parse_string: length_data(be_u16), a 16-bit big-endian length and then
\* that many bytes; short of them, the number still missing.
parse_string(input) ==
    LET l == be_u16(input)
    IN  IF ~l.ok THEN l
        ELSE IF l.val > Len(l.rest) THEN PIncomplete(l.val - Len(l.rest))
        ELSE POk(Drop(l.rest, l.val), SubSeq(l.rest, 1, l.val))

\* One parser of a tuple, by name.
ParseOne(kind, input) ==
    CASE kind = "le_u16" -> le_u16(input)
      [] kind = "le_u32" -> le_u32(input)
      [] kind = "be_u16" -> be_u16(input)
      [] kind = "be_u32" -> be_u32(input)
      [] kind = "be_u64" -> be_u64(input)
      [] kind = "string" -> parse_string(input)

\* nom's tuple((p1, ..., pn)): the parsers in order, each on what the one
\* before left; the first that fails decides the result.  (The result r of
\* one parser is bound as an element of a singleton set, so that it is
\* computed once.)
RECURSIVE ParseTuple(_, _, _)
ParseTuple(kinds, input, acc) ==
    IF Len(kinds) = 0 THEN POk(input, acc)
    ELSE CHOOSE out \in
            {IF r.ok THEN ParseTuple(Tail(kinds), r.rest, Append(acc, r.val))
                     ELSE r :
                r \in {ParseOne(Head(kinds), input)}} : TRUE

----------------------------------------------------------------------------
(* Record::from_slice *)

\* The tuple of parsers of Record::from_slice.
RecordParsers ==
    <<"le_u32", "le_u32", "le_u32", "le_u32", "le_u32", "le_u32",
      "le_u16", "le_u16", "le_u32", "le_u32", "le_u32">>

ExtraMetadataMask == 32768
MetadataOffsetMask == 32767

\* The mutant of MetadataOffsetOf: a 14-bit mask.
MetadataOffsetOfNarrow(metadata_info) == BitAnd(metadata_info, 16383, 16)

\* metadata_offset: metadata_info & 0x7FFF
MetadataOffsetOf(metadata_info) == BitAnd(metadata_info, MetadataOffsetMask, 16)

\* extra_metadata_present: (metadata_info & 0x8000) != 0
ExtraMetadataPresentOf(metadata_info) ==
    BitAnd(metadata_info, ExtraMetadataMask, 16) # 0

\* Record::from_slice: Some(record), or a panic (a parse error is
\* panic!("{:?}", e), and so is the unwrap inside u32_hi_lo_to_u64).
from_slice(input) ==
    CHOOSE out \in
        {IF ~p.ok THEN [tag |-> "panic"]
         ELSE LET f == p.val
                  count == u32_hi_lo_to_u64(f[3], f[4])
                  timestamp_ns == u32_hi_lo_to_u64(f[5], f[6])
                  data_offset == u32_hi_lo_to_u64(f[10], f[11])
              IN  IF <<>> \in {count, timestamp_ns, data_offset}
                  THEN [tag |-> "panic"]
                  ELSE [tag |-> "Some",
                        rec |-> [number |-> f[1],
                                 data_len |-> f[2],
                                 count |-> count,
                                 timestamp_ns |-> timestamp_ns,
                                 lfsr |-> f[7],
                                 extra_metadata_present |-> ExtraMetadataPresentOf(f[8]),
                                 metadata_offset |-> MetadataOffsetOf(f[8]),
                                 flags |-> f[9],
                                 data_offset |-> data_offset]] :
            p \in {ParseTuple(RecordParsers, input, <<>>)}} : TRUE

\* pad2pcapng, the 16-bit value written after lfsr:
\* (if extra_metadata_present { 0x8000 } else { 0 }) | metadata_offset
metadata_info_written(record) ==
    BitOr(IF record.extra_metadata_present THEN ExtraMetadataMask ELSE 0,
          record.metadata_offset, 16)

----------------------------------------------------------------------------
(* PadHeader::from_bufreader *)

\* The parsers of the header, in order (nom's nested tuples run their
\* members in sequence, so the nesting is flattened): five strings,
\* numbers0, trigger_record_number, three, first_record_number,
\* last_record_number, record_len, timestamp_array_size, four timestamps,
\* guid, two channel names, start_time, stop_time, records_offset,
\* record_data_offset, start.
HeaderParsers ==
    <<"string", "string", "string", "string", "string",
      "be_u32", "be_u32",
      "be_u32", "be_u32", "be_u32", "be_u32", "be_u32", "be_u32",
      "be_u64", "be_u64", "be_u64", "be_u64",
      "string",
      "string", "string",
      "be_u16", "be_u16", "be_u16",
      "be_u16", "be_u16", "be_u16",
      "be_u64", "be_u64",
      "string">>

\* String::from_utf8_lossy, as a sequence of code points: an ASCII byte is
\* its own code point, a well-formed two-byte sequence is decoded, and any
\* other byte is replaced by U+FFFD.  (Three- and four-byte sequences are
\* not modelled; no input of the model holds a byte in 0xE0..0xF4.)
RECURSIVE from_utf8_lossy(_)
from_utf8_lossy(b) ==
    IF Len(b) = 0 THEN <<>>
    ELSE IF b[1] < 128 THEN <<b[1]>> \o from_utf8_lossy(Tail(b))
    ELSE IF b[1] \in 194..223 /\ Len(b) >= 2 /\ b[2] \in 128..191
         THEN <<(b[1] - 192) * 64 + (b[2] - 128)>> \o from_utf8_lossy(Drop(b, 2))
    ELSE <<65533>> \o from_utf8_lossy(Tail(b))

\* The PadHeader built from the values of a successful parse.
MakePadHeader(o) ==
    [module_type |-> from_utf8_lossy(o[1]),
     port_id |-> from_utf8_lossy(o[2]),
     rx_or_tx |-> from_utf8_lossy(o[3]),
     description |-> from_utf8_lossy(o[4]),
     format_code |-> from_utf8_lossy(o[5]),
     numbers0 |-> <<o[6], o[7]>>,
     trigger_record_number |-> o[8],
     three |-> o[9],
     first_record_number |-> o[10],
     last_record_number |-> o[11],
     record_len |-> o[12],
     timestamp_array_size |-> o[13],
     timestamps_ns |-> [first |-> o[14], last |-> o[15],
                        stop |-> o[16], trigger |-> o[17]],
     guid |-> from_utf8_lossy(o[18]),
     channel_names |-> [a |-> from_utf8_lossy(o[19]), b |-> from_utf8_lossy(o[20])],
     start_time |-> [hour |-> o[21], minute |-> o[22], millisec |-> o[23]],
     stop_time |-> [hour |-> o[24], minute |-> o[25], millisec |-> o[26]],
     records_offset |-> o[27],
     record_data_offset |-> o[28],
     start |-> from_utf8_lossy(o[29])]

\* One decode attempt over the working buffer, from its byte 0: the match of
\* from_bufreader.  The parsers used fail with Incomplete(Size(n)) only, so
\* the third arm of the match (return None) is never taken.
DecodeAttempt(buf) ==
    CHOOSE out \in
        {IF p.ok THEN [tag |-> "Ok", header |-> MakePadHeader(p.val)]
                 ELSE [tag |-> "Incomplete", need |-> p.need] :
            p \in {ParseTuple(HeaderParsers, buf, <<>>)}} : TRUE

\* The mutant of FillBuffer: a read past the end of the source succeeds and
\* leaves the zeros of the resize in the part of the buffer it could not fill.
FillBufferZeroPad(buf, grow, src, pos) ==
    LET n == Len(buf) + grow
        have == IF Len(src) - pos < n THEN Len(src) - pos ELSE n
    IN  [ok |-> TRUE,
         buf |-> SubSeq(src, pos + 1, pos + have) \o [i \in 1..(n - have) |-> 0],
         pos |-> pos + n]

\* The mutant of FillBuffer: the bytes read never reach the buffer, which
\* keeps the zeros of its resize.
FillBufferNoRead(buf, grow, src, pos) ==
    LET n == Len(buf) + grow
    IN  IF pos + n > Len(src) THEN [ok |-> FALSE, buf |-> buf, pos |-> pos]
        ELSE [ok |-> TRUE, buf |-> buf \o [i \in 1..grow |-> 0], pos |-> pos + n]

\* buffer.resize_with(buffer.len() + expand, ..) and then
\* pad_reader.read_exact(buffer.as_mut_slice()): the whole buffer is filled
\* from the stream position on, or the read fails when the source ends
\* before that (unwrap then panics).
FillBuffer(buf, grow, src, pos) ==
    LET n == Len(buf) + grow
    IN  IF pos + n > Len(src) THEN [ok |-> FALSE, buf |-> buf, pos |-> pos]
        ELSE [ok |-> TRUE, buf |-> SubSeq(src, pos + 1, pos + n), pos |-> pos + n]

\* The mutant of ExpandFor: the buffer is never grown.
ExpandForStuck(n) == 0

\* The mutant of ExpandFor: the buffer is grown a byte at a time.
ExpandForOneByte(n) == 1

\* The mutant of ExpandFor: the buffer is grown one byte too far.
ExpandForOneMore(n) == n + 1

\* expand = n.get()
ExpandFor(n) == n

\* The mutant of SeekRelativeBack: the stream is left where the read ended.
SeekRelativeBackNone(pos, buf) == pos

\* pad_reader.seek_relative(-(buffer.len() as i64)): the position after it.
SeekRelativeBack(pos, buf) == pos - Len(buf)

----------------------------------------------------------------------------
(* Record::from_slice on its own: the slices it is given, and the encoder's *)
(* write of the metadata_info value of a decoded record.                    *)

RecordLen == 40
TimestampArraySize == 8

\* How far the length of a slice handed to from_slice may differ from 40.
SliceSlack == 1

\* A slice with the bytes at offsets off+1 .. off+Len(b) replaced by b.
Overwrite(s, off, b) ==
    [i \in 1..Len(s) |-> IF i > off /\ i <= off + Len(b) THEN b[i - off] ELSE s[i]]

\* 40 distinct bytes, and the 40 zero bytes of the sentinel.
RampBlock == [i \in 1..RecordLen |-> i]
ZeroBlock == [i \in 1..RecordLen |-> 0]

\* Little-endian bytes of boundary values of a 32-bit field: 0, 1, 2^32 - 1,
\* 0x12345678, 0x80000000, 0xFFFFFFFE.
Patterns32 ==
    {<<0, 0, 0, 0>>, <<1, 0, 0, 0>>, <<255, 255, 255, 255>>,
     <<120, 86, 52, 18>>, <<0, 0, 0, 128>>, <<254, 255, 255, 255>>}

\* Values of the 16-bit metadata_info field: every single bit, every
\* complement of a single bit, and 0, 0x1234, 0x9234, 0xFFFF.
Raw16Values ==
    {Pow2(k) : k \in 0..15} \cup {65535 - Pow2(k) : k \in 0..15}
    \cup {0, 4660, 37428, 65535}

\* The byte offsets of the (hi, lo) pairs of count, timestamp_ns, data_offset.
HiLoOffsets == {8, 16, 32}

\* The slices from_slice is applied to.
DecodeInputs ==
    {RampBlock, ZeroBlock}
    \cup {Overwrite(Overwrite(RampBlock, off, hi), off + 4, lo) :
            off \in HiLoOffsets, hi \in Patterns32, lo \in Patterns32}
    \cup {Overwrite(RampBlock, 26, <<v % 256, v \div 256>>) : v \in Raw16Values}
    \cup {SubSeq(RampBlock, 1, RecordLen - k) : k \in 1..SliceSlack}
    \cup {RampBlock \o [i \in 1..k |-> 200 + i] : k \in 1..SliceSlack}

NoCall ==
    [curr0 |-> <<0, 0>>, count0 |-> 0, read |-> 0, block |-> <<>>,
     result |-> "none", why |-> "none", after_sentinel |-> FALSE]

FileIdle ==
    /\ fpc = "idle"
    /\ overflow_checks = FALSE
    /\ header = [tag |-> "none"]
    /\ curr = <<0, 0>>
    /\ last = <<0, 0>>
    /\ rpos = 0
    /\ rfile = <<>>
    /\ call = NoCall
    /\ yielded = <<>>

NoFetch ==
    [record |-> [data_len |-> <<0, 0>>, metadata_offset |-> 0,
                 extra_metadata_present |-> FALSE,
                 data_offset |-> <<0, 0, 0, 0>>],
     exclude_metadata |-> FALSE, pos0 |-> 0, offset0 |-> 0, delta |-> 0,
     from |-> 0, result |-> "none", why |-> "none", data |-> <<>>]

ReaderIdle ==
    /\ dpos = 0
    /\ curr_data_offset = 0
    /\ fetch = NoFetch
    /\ comments = <<>>

HeaderIdle ==
    /\ stream = <<>>
    /\ hstart = 0
    /\ spos = 0
    /\ buffer = <<>>
    /\ expand = 0
    /\ hpc = "idle"
    /\ hresult = [tag |-> "pending"]
    /\ iters = 0

InitDecode ==
    /\ slice \in DecodeInputs
    /\ decoded = [tag |-> "pending"]
    /\ written = -1
    /\ HeaderIdle
    /\ FileIdle
    /\ ReaderIdle

\* A call of Record::from_slice(&slice).
Decode ==
    /\ decoded.tag = "pending"
    /\ decoded' = from_slice(slice)
    /\ UNCHANGED <<slice, written>>
    /\ UNCHANGED headerVars
    /\ UNCHANGED fileVars
    /\ UNCHANGED readerVars
    /\ UNCHANGED convVars

\* The encoder writes the record's metadata_info value back out.
WriteMetadataInfo ==
    /\ decoded.tag = "Some"
    /\ written = -1
    /\ written' = metadata_info_written(decoded.rec)
    /\ UNCHANGED <<slice, decoded>>
    /\ UNCHANGED headerVars
    /\ UNCHANGED fileVars
    /\ UNCHANGED readerVars
    /\ UNCHANGED convVars

NextDecode == Decode \/ WriteMetadataInfo

SpecDecode == InitDecode /\ [][NextDecode]_vars

\* What the layout of the format says a slice holds, read off the bytes
\* directly: the little-endian 32-bit and 16-bit fields at a byte offset.
Le32At(s, off) ==
    <<s[off + 4] * 256 + s[off + 3], s[off + 2] * 256 + s[off + 1]>>
Le16At(s, off) == s[off + 2] * 256 + s[off + 1]

\* C6: the 64-bit value rebuilt from two 32-bit halves hi and lo is
\* hi * 2^32 + lo, that is the limbs of hi followed by the limbs of lo, for
\* count, timestamp_ns and data_offset, and the reconstruction never fails.
C6_HiLoReconstruction ==
    \A off \in HiLoOffsets :
        Len(slice) >= RecordLen =>
            LET hi == Le32At(slice, off)
                lo == Le32At(slice, off + 4)
                v  == u32_hi_lo_to_u64(hi, lo)
            IN  /\ v = hi \o lo
                /\ decoded.tag # "pending" =>
                       /\ decoded.tag = "Some"
                       /\ off = 8 => decoded.rec.count = hi \o lo
                       /\ off = 16 => decoded.rec.timestamp_ns = hi \o lo
                       /\ off = 32 => decoded.rec.data_offset = hi \o lo

\* hi = 0xFFFFFFFF and lo = 0x00000001 decoded to 0xFFFFFFFF00000001.
C6_Witness ==
    /\ decoded.tag = "Some"
    /\ Le32At(slice, 8) = <<65535, 65535>>
    /\ Le32At(slice, 12) = <<0, 1>>
    /\ decoded.rec.count = <<65535, 65535, 0, 1>>

\* C7: decoding splits the 16-bit metadata_info raw16 into
\* extra_metadata_present = (bit 15 set) and metadata_offset = the low 15
\* bits, and the encoder's (0x8000 if present else 0) | metadata_offset is
\* raw16 again.
C7_MetadataSplitLossless ==
    decoded.tag = "Some" =>
        LET raw16 == Le16At(slice, 26)
        IN  /\ decoded.rec.extra_metadata_present = (raw16 >= 32768)
            /\ decoded.rec.metadata_offset = raw16 % 32768
            /\ written # -1 => written = raw16

\* metadata_info = 0x8000 | 0x1234 decoded and written back.
C7_Witness ==
    /\ decoded.tag = "Some"
    /\ Le16At(slice, 26) = 37428
    /\ decoded.rec.extra_metadata_present
    /\ decoded.rec.metadata_offset = 4660
    /\ written = 37428

\* C8: a 40-byte block always decodes, to the little-endian fields at the
\* fixed offsets 0, 4, 8, 12, 16, 20, 24, 26, 28, 32, 36, and the eleven
\* fields consume exactly the 40 bytes.
C8_FieldLayout ==
    (decoded.tag # "pending" /\ Len(slice) = RecordLen) =>
        /\ decoded.tag = "Some"
        /\ decoded.rec.number = Le32At(slice, 0)
        /\ decoded.rec.data_len = Le32At(slice, 4)
        /\ decoded.rec.count = Le32At(slice, 8) \o Le32At(slice, 12)
        /\ decoded.rec.timestamp_ns = Le32At(slice, 16) \o Le32At(slice, 20)
        /\ decoded.rec.lfsr = Le16At(slice, 24)
        /\ decoded.rec.extra_metadata_present = (slice[28] >= 128)
        /\ decoded.rec.metadata_offset = Le16At(slice, 26) % 32768
        /\ decoded.rec.flags = Le32At(slice, 28)
        /\ decoded.rec.data_offset = Le32At(slice, 32) \o Le32At(slice, 36)
        /\ ParseTuple(RecordParsers, slice, <<>>).rest = <<>>
        /\ ~ParseTuple(RecordParsers, SubSeq(slice, 1, RecordLen - 1), <<>>).ok

\* The block of 40 distinct bytes, decoded.
C8_Witness ==
    /\ slice = RampBlock
    /\ decoded.tag = "Some"
    /\ decoded.rec.number = <<4 * 256 + 3, 2 * 256 + 1>>
    /\ decoded.rec.lfsr = 26 * 256 + 25

----------------------------------------------------------------------------
(* PadHeader::from_bufreader on its own, one step of its loop at a time.    *)

\* The longest string of a header, the longest junk before the header, the
\* most bytes a source is cut short by or holds after the header, and a cap
\* on the passes of the loop (never reached: see IterationsBelowCap).
MaxStrLen == 2
MaxStart == 1
MaxCut == 1
MaxTrail == 1
MaxIters == 50

Be16Bytes(v) == <<v \div 256, v % 256>>

RECURSIVE BeBytes(_)
BeBytes(w) == IF Len(w) = 0 THEN <<>> ELSE Be16Bytes(w[1]) \o BeBytes(Tail(w))

\* The bytes of one header field of a kind holding a value.
EncodeField(kind, val) ==
    CASE kind = "string" -> Be16Bytes(Len(val)) \o val
      [] kind = "be_u16" -> Be16Bytes(val)
      [] kind = "be_u32" -> BeBytes(val)
      [] kind = "be_u64" -> BeBytes(val)

\* The bytes of a header holding the 29 raw field values o.
RECURSIVE EncodeFields(_, _)
EncodeFields(kinds, o) ==
    IF Len(kinds) = 0 THEN <<>>
    ELSE EncodeField(Head(kinds), Head(o)) \o EncodeFields(Tail(kinds), Tail(o))

EncodeHeader(o) == EncodeFields(HeaderParsers, o)

\* A string of n bytes: ASCII, an invalid byte, a two-byte sequence, ...
StrOfLen(n) ==
    [i \in 1..n |-> CASE i % 4 = 1 -> 65 [] i % 4 = 2 -> 255
                      [] i % 4 = 3 -> 195 [] OTHER -> 169]

\* The raw field values of a header: the strings module_type, guid and
\* start of the given lengths, every other string one byte long, and the
\* numbers all different from one another.
RawHeader(len1, len6, len9, first_n, last_n, rec_len, tas, roff, rdoff, trig) ==
    <<StrOfLen(len1), <<80>>, <<82>>, <<68>>, <<70>>,
      <<1, 2>>, <<3, 4>>,
      trig, <<0, 3>>, first_n, last_n, rec_len, tas,
      <<0, 0, 5, 6>>, <<0, 0, 7, 8>>, <<0, 9, 10, 11>>, <<12, 0, 13, 14>>,
      StrOfLen(len6),
      <<97>>, <<98>>,
      15, 16, 17,
      18, 19, 20,
      roff, rdoff,
      StrOfLen(len9)>>

\* The headers from_bufreader is run on by itself: module_type and start of
\* every length up to MaxStrLen, guid of a length that depends on both.
HeaderInputs ==
    {RawHeader(a, (a + c) % (MaxStrLen + 1), c,
               <<0, 1>>, <<0, 3>>, <<0, 40>>, <<0, 8>>,
               <<0, 0, 0, 300>>, <<0, 0, 0, 420>>, <<0, 2>>) :
        a \in 0..MaxStrLen, c \in 0..MaxStrLen}

\* The lengths a source holding a header of n bytes is cut or extended to.
SourceLens(n) == {n + t : t \in (0 - MaxCut)..MaxTrail} \cup 0..MaxCut

\* Junk before the header, and bytes after it.
JunkBytes(n) == [i \in 1..n |-> 170 + i]
TrailBytes(n) == [i \in 1..n |-> 100 + i]

\* The sources: where the header starts, and the bytes of the source.
SourcesOf(pre, o) ==
    LET full == EncodeHeader(o) \o TrailBytes(MaxTrail)
    IN  {[start |-> pre, src |-> JunkBytes(pre) \o SubSeq(full, 1, n)] :
            n \in SourceLens(Len(EncodeHeader(o)))}

HeaderSources ==
    UNION {SourcesOf(pre, o) : pre \in 0..MaxStart, o \in HeaderInputs}

DecodeIdle ==
    /\ slice = <<>>
    /\ decoded = [tag |-> "pending"]
    /\ written = -1

InitHeader ==
    /\ \E s \in HeaderSources :
          /\ stream = s.src
          /\ hstart = s.start
          /\ spos = s.start
    /\ buffer = <<>>
    /\ expand = 0
    /\ hpc = "fill"
    /\ hresult = [tag |-> "pending"]
    /\ iters = 0
    /\ DecodeIdle
    /\ FileIdle
    /\ ReaderIdle

\* buffer.resize_with(..); pad_reader.read_exact(..).unwrap();
HdrFill ==
    /\ hpc = "fill"
    /\ \E f \in {FillBuffer(buffer, expand, stream, spos)} :
           IF f.ok
           THEN /\ buffer' = f.buf
                /\ spos' = f.pos
                /\ hpc' = "decode"
                /\ hresult' = hresult
           ELSE /\ hpc' = "panicked"
                /\ hresult' = [tag |-> "panic"]
                /\ UNCHANGED <<buffer, spos>>
    /\ UNCHANGED <<stream, hstart, expand, iters>>
    /\ UNCHANGED decodeVars
    /\ UNCHANGED readerVars
    /\ UNCHANGED convVars
    /\ UNCHANGED fileVars

\* match tuple((...))(buffer.as_slice()) { Ok => return Some(..),
\* Err(Incomplete(Size(n))) => expand = n.get(), _ => return None }
HdrDecode ==
    /\ hpc = "decode"
    /\ \E d \in {DecodeAttempt(buffer)} :
           CASE d.tag = "Ok" ->
                  /\ hresult' = [tag |-> "Some", header |-> d.header]
                  /\ hpc' = "done"
                  /\ expand' = expand
             [] d.tag = "Incomplete" ->
                  /\ expand' = ExpandFor(d.need)
                  /\ hpc' = "rewind"
                  /\ hresult' = hresult
             [] OTHER ->
                  /\ hresult' = [tag |-> "None"]
                  /\ hpc' = "done"
                  /\ expand' = expand
    /\ UNCHANGED <<stream, hstart, spos, buffer, iters>>
    /\ UNCHANGED decodeVars
    /\ UNCHANGED readerVars
    /\ UNCHANGED convVars
    /\ UNCHANGED fileVars

\* pad_reader.seek_relative(-(buffer.len())).unwrap(); and around the loop.
HdrRewind ==
    /\ hpc = "rewind"
    /\ iters < MaxIters
    /\ IF SeekRelativeBack(spos, buffer) < 0
       THEN /\ hpc' = "panicked"
            /\ hresult' = [tag |-> "panic"]
            /\ spos' = spos
       ELSE /\ spos' = SeekRelativeBack(spos, buffer)
            /\ hpc' = "fill"
            /\ hresult' = hresult
    /\ iters' = iters + 1
    /\ UNCHANGED <<stream, hstart, buffer, expand>>
    /\ UNCHANGED decodeVars
    /\ UNCHANGED readerVars
    /\ UNCHANGED convVars
    /\ UNCHANGED fileVars

NextHeader == HdrFill \/ HdrDecode \/ HdrRewind

SpecHeader == InitHeader /\ [][NextHeader]_vars

\* The loop is straight-line code of one thread: a step that can be taken
\* is taken.
SpecHeaderFair == SpecHeader /\ WF_vars(NextHeader)

\* The cap on the passes of the loop is never what stops it.
IterationsBelowCap == iters < MaxIters

\* A well-formed header lies whole in the source from the start position on.
WholeHeaderAvailable ==
    DecodeAttempt(SubSeq(stream, hstart + 1, Len(stream))).tag = "Ok"

\* C9: when a well-formed header is wholly available in the source, the
\* grow-and-retry loop of from_bufreader ends, after finitely many passes,
\* with a decoded header.
C9_GrowthLoopTerminates ==
    (hpc = "fill" /\ iters = 0 /\ WholeHeaderAvailable)
        => <>(hpc = "done" /\ hresult.tag = "Some")

\* A header with strings of the greatest length, decoded after at least one
\* retry for each of its 29 fields.
C9_Witness ==
    /\ hpc = "done"
    /\ hresult.tag = "Some"
    /\ iters >= 29
    /\ Len(hresult.header.guid) > 0

\* C10: the header the incremental parse returns is, field by field, the
\* header that one decode over a buffer holding the whole header gives.
C10_IncrementalEqualsOnePass ==
    hpc = "done" =>
        LET one == DecodeAttempt(SubSeq(stream, hstart + 1, Len(stream)))
        IN  /\ hresult.tag = "Some"
            /\ one.tag = "Ok"
            /\ hresult.header = one.header

\* A header returned after many growth passes, from a source that holds
\* bytes before and after the header.
C10_Witness ==
    /\ hpc = "done"
    /\ hresult.tag = "Some"
    /\ iters >= 29
    /\ hstart > 0
    /\ Len(stream) > spos
    /\ hresult.header.module_type = <<65, 65533>>

\* The encoded length of a header field of a kind holding a raw value: the
\* width of a number, and 2 + len for a length-prefixed string.
FieldLen(kind, val) ==
    CASE kind = "string" -> 2 + Len(val)
      [] kind = "be_u16" -> 2
      [] kind = "be_u32" -> 4
      [] kind = "be_u64" -> 8

RECURSIVE SumFieldLens(_, _)
SumFieldLens(kinds, o) ==
    IF Len(kinds) = 0 THEN 0
    ELSE FieldLen(Head(kinds), Head(o)) + SumFieldLens(Tail(kinds), Tail(o))

\* The encoded length of the header that starts at hstart in the source
\* (-1 when the source holds no whole header there).
TrueHeaderLen ==
    LET p == ParseTuple(HeaderParsers,
                        SubSeq(stream, hstart + 1, Len(stream)), <<>>)
    IN  IF p.ok THEN SumFieldLens(HeaderParsers, p.val) ELSE 0 - 1

\* C11: when from_bufreader returns a header, the stream position is the
\* start position plus the encoded length of the header (the widths of the
\* numbers plus 2 + len for each of the nine strings), and the working
\* buffer holds the bytes of the header and nothing after them.
C11_PositionJustPastHeader ==
    (hpc = "done" /\ hresult.tag = "Some") =>
        /\ spos = hstart + TrueHeaderLen
        /\ buffer = SubSeq(stream, hstart + 1, hstart + TrueHeaderLen)

\* A header with an empty start marker returned from a source that has
\* bytes before the header and a byte after it.
C11_Witness ==
    /\ hpc = "done"
    /\ hresult.tag = "Some"
    /\ hstart > 0
    /\ Len(stream) > spos
    /\ Len(hresult.header.start) = 0
    /\ Len(hresult.header.module_type) = MaxStrLen

----------------------------------------------------------------------------
(* PadFile::from_filename and the Records iterator *)

\* How many values next to 0 and next to 2^32 - 1 the record numbers of a
\* header are drawn from, and how many blocks a run reads at most.
NearBound == 1
MaxBlocks == 3

U32Max == <<LimbMax, LimbMax>>

NatToU32(n) == <<n \div LimbBase, n % LimbBase>>

\* A u64 below 2^31 as a natural number.
U64ToNat(w) == w[3] * LimbBase + w[4]

\* a > b on u32.
U32Gt(a, b) == a[1] > b[1] \/ (a[1] = b[1] /\ a[2] > b[2])

\* a + 1 and a - 1 modulo 2^32.
WrappingAddOne(a) ==
    IF a[2] < LimbMax THEN <<a[1], a[2] + 1>>
    ELSE IF a[1] < LimbMax THEN <<a[1] + 1, 0>>
    ELSE <<0, 0>>
WrappingSubOne(a) ==
    IF a[2] > 0 THEN <<a[1], a[2] - 1>>
    ELSE IF a[1] > 0 THEN <<a[1] - 1, LimbMax>>
    ELSE U32Max

\* Rust's a + 1 on a u32: with overflow checks (the dev profile) an
\* overflow panics, without them (the release profile) it wraps.
AddOne(a, checks) ==
    [panic |-> checks /\ a = U32Max, val |-> WrappingAddOne(a)]

\* if self.curr > self.last { return None; }
StreamExhausted(c, l) == U32Gt(c, l)

\* The mutant of IsNullRecord: a block is null when its number field is 0.
IsNullRecordByNumber(block) == \A i \in 1..4 : i <= Len(block) => block[i] = 0

\* record_buffer.iter().all(|b| *b == 0)
IsNullRecord(block) == \A i \in 1..Len(block) : block[i] = 0

\* The mutant of NumberMatches: any number is accepted.
NumberMatchesAny(record, c) == TRUE

\* assert_eq!(record.number, self.curr, "record number mismatch")
NumberMatches(record, c) == record.number = c

\* The little-endian bytes of a u32 and of a u16.
Le32Bytes(w) == <<w[2] % 256, w[2] \div 256, w[1] % 256, w[1] \div 256>>
Le16Bytes(v) == <<v % 256, v \div 256>>

\* The shapes of the records of a file: payload length, metadata_info and
\* payload offset.  Every record has count = 1, so none is all zero.
RecordShapes ==
    {[data_len |-> 3, metadata_info |-> 0, data_offset |-> 0],
     [data_len |-> 4, metadata_info |-> 32770, data_offset |-> 3]}

\* The 40 bytes of a record with a number and a shape.
MakeBlock(number, shape) ==
    Le32Bytes(number) \o Le32Bytes(NatToU32(shape.data_len))
    \o Le32Bytes(<<0, 0>>) \o Le32Bytes(<<0, 1>>)
    \o Le32Bytes(<<0, 0>>) \o Le32Bytes(<<0, 1000>>)
    \o Le16Bytes(7) \o Le16Bytes(shape.metadata_info)
    \o Le32Bytes(<<0, 0>>)
    \o Le32Bytes(<<0, 0>>) \o Le32Bytes(NatToU32(shape.data_offset))

\* The block of a record numbered 0 whose fields are all 0 but for
\* data_offset_lo = 1: a single byte of it is not zero.
AlmostZeroBlock == Overwrite(ZeroBlock, RecordLen - 4, <<1>>)

\* What the file may hold where a stream expecting number c reads next:
\* the record expected, a record one ahead (a skipped number), a record one
\* behind (a repeated number), a record numbered 0 with one non-zero byte,
\* the sentinel, or nothing (the file ends).
NextBlocks(c) ==
    {MakeBlock(n, sh) : n \in {c, WrappingAddOne(c), WrappingSubOne(c)},
                        sh \in RecordShapes}
    \cup {AlmostZeroBlock, ZeroBlock, <<>>}

\* The record numbers a header declares: next to 0 and next to 2^32 - 1.
BoundaryNumbers ==
    {<<0, i>> : i \in 0..NearBound}
    \cup {<<LimbMax, LimbMax - i>> : i \in 0..NearBound}

\* The headers of the files opened: every pair of boundary record numbers
\* with the supported record_len and timestamp_array_size, and one header
\* for each unsupported value.
FileHeaders ==
    {RawHeader(1, 1, 1, f, l, <<0, 40>>, <<0, 8>>,
               <<0, 0, 0, 200>>, <<0, 0, 0, 400>>, <<0, 1>>) :
        f \in BoundaryNumbers, l \in BoundaryNumbers}
    \cup {RawHeader(1, 1, 1, <<0, 0>>, <<0, 1>>, <<0, 41>>, <<0, 8>>,
                    <<0, 0, 0, 200>>, <<0, 0, 0, 400>>, <<0, 1>>),
          RawHeader(1, 1, 1, <<0, 0>>, <<0, 1>>, <<0, 40>>, <<0, 7>>,
                    <<0, 0, 0, 200>>, <<0, 0, 0, 400>>, <<0, 1>>)}

\* The bytes of a file up to and just past its header: the header and what
\* follows it, or the header cut short by some bytes at the end of the file.
FileBytes(raw, cut) ==
    IF cut = 0 THEN EncodeHeader(raw) \o TrailBytes(MaxTrail)
    ELSE SubSeq(EncodeHeader(raw), 1, Len(EncodeHeader(raw)) - cut)

\* The mutant of HeaderSupported: timestamp_array_size is not checked.
HeaderSupportedLenOnly(h) == h.record_len = NatToU32(RecordLen)

\* assert_eq!(header.record_len, 40, ..);
\* assert_eq!(header.timestamp_array_size, 8, ..);
HeaderSupported(h) ==
    /\ h.record_len = NatToU32(RecordLen)
    /\ h.timestamp_array_size = NatToU32(TimestampArraySize)

\* The mutant of NewRecordReader: the tracked offset starts at
\* record_data_offset.
NewRecordReaderAbsolute(h) ==
    [dpos |-> U64ToNat(h.record_data_offset),
     curr_data_offset |-> U64ToNat(h.record_data_offset)]

\* data_reader.seek(SeekFrom::Start(header.record_data_offset)) and
\* RecordReader { data_reader, curr_data_offset: 0 }
NewRecordReader(h) ==
    [dpos |-> U64ToNat(h.record_data_offset), curr_data_offset |-> 0]

Init ==
    /\ fpc = "start"
    /\ overflow_checks \in BOOLEAN
    /\ header = [tag |-> "none"]
    /\ curr = <<0, 0>>
    /\ last = <<0, 0>>
    /\ rpos = 0
    /\ rfile = <<>>
    /\ call = NoCall
    /\ yielded = <<>>
    /\ ReaderIdle
    /\ DecodeIdle
    /\ HeaderIdle

\* PadFile::from_filename on a file that cannot be opened: Err(e).
OpenFails ==
    /\ fpc = "start"
    /\ fpc' = "io_error"
    /\ UNCHANGED <<overflow_checks, header, curr, last, rpos, rfile, call,
                   yielded>>
    /\ UNCHANGED decodeVars
    /\ UNCHANGED readerVars
    /\ UNCHANGED convVars
    /\ UNCHANGED headerVars

\* PadFile::from_filename on a file that opens (twice): it calls
\* PadHeader::from_bufreader on pad_reader, at position 0 of the file.
OpenFile ==
    /\ fpc = "start"
    /\ \E raw \in FileHeaders, cut \in 0..MaxCut :
          stream' = FileBytes(raw, cut)
    /\ fpc' = "header"
    /\ hstart' = 0
    /\ spos' = 0
    /\ buffer' = <<>>
    /\ expand' = 0
    /\ hpc' = "fill"
    /\ hresult' = [tag |-> "pending"]
    /\ iters' = 0
    /\ UNCHANGED <<overflow_checks, header, curr, last, rpos, rfile, call,
                   yielded>>
    /\ UNCHANGED decodeVars
    /\ UNCHANGED readerVars
    /\ UNCHANGED convVars

\* PadFile::from_filename once from_bufreader is over: the unwrap of its
\* result (a failed read has panicked already), the two assert_eq, the seek
\* of pad_reader to records_offset and Records::new(first, last, ..).
OpenFinish ==
    /\ fpc = "header"
    /\ hpc \in {"done", "panicked"}
    /\ IF hresult.tag = "Some" /\ HeaderSupported(hresult.header)
       THEN /\ fpc' = "open"
            /\ header' = [tag |-> "Some", val |-> hresult.header]
            /\ curr' = hresult.header.first_record_number
            /\ last' = hresult.header.last_record_number
            /\ rpos' = U64ToNat(hresult.header.records_offset)
            /\ dpos' = NewRecordReader(hresult.header).dpos
            /\ curr_data_offset' =
                  NewRecordReader(hresult.header).curr_data_offset
       ELSE /\ fpc' = "panicked"
            /\ UNCHANGED <<header, curr, last, rpos, dpos, curr_data_offset>>
    /\ UNCHANGED <<overflow_checks, rfile, call, yielded, fetch, comments>>
    /\ UNCHANGED decodeVars
    /\ UNCHANGED headerVars

\* The mutant of AfterReadExact: the read leaves the cursor where it was.
AfterReadExactPeek(pos, n) == pos

\* self.reader.read_exact(&mut record_buffer): the cursor after a read of n
\* bytes that succeeds.
AfterReadExact(pos, n) == pos + n

\* The index in rfile of the block at the stream position.
BlockIndex == (rpos - U64ToNat(header.val.records_offset)) \div RecordLen + 1

\* Records::next.
RecordsNext ==
    /\ fpc = "open"
    /\ UNCHANGED <<overflow_checks, header, last>>
    /\ UNCHANGED decodeVars
    /\ UNCHANGED readerVars
    /\ UNCHANGED convVars
    /\ UNCHANGED headerVars
    /\ LET seen == call.after_sentinel \/ call.why = "sentinel"
           done(res, why, n, blk) ==
               call' = [curr0 |-> curr, count0 |-> Len(yielded), read |-> n,
                        block |-> blk, result |-> res, why |-> why,
                        after_sentinel |-> seen]
       IN
       IF StreamExhausted(curr, last)
       THEN \* return None
            /\ done("None", "exhausted", 0, <<>>)
            /\ UNCHANGED <<fpc, curr, rpos, rfile, yielded>>
       ELSE
       /\ BlockIndex <= MaxBlocks
       /\ \E blk \in IF BlockIndex <= Len(rfile) THEN {rfile[BlockIndex]}
                     ELSE NextBlocks(curr) :
          IF Len(blk) < RecordLen
          THEN \* read_exact fails at the end of the file: unwrap panics
               /\ done("panic", "eof", 0, <<>>)
               /\ fpc' = "panicked"
               /\ UNCHANGED <<curr, rpos, rfile, yielded>>
          ELSE
          /\ rpos' = AfterReadExact(rpos, RecordLen)
          /\ rfile' = IF BlockIndex <= Len(rfile) THEN rfile
                      ELSE Append(rfile, blk)
          /\ IF IsNullRecord(blk)
             THEN \* self.curr = self.last + 1; return None
                  \E a \in {AddOne(last, overflow_checks)} :
                     IF a.panic
                     THEN /\ done("panic", "overflow", RecordLen, blk)
                          /\ fpc' = "panicked"
                          /\ UNCHANGED <<curr, yielded>>
                     ELSE /\ done("None", "sentinel", RecordLen, blk)
                          /\ curr' = a.val
                          /\ UNCHANGED <<fpc, yielded>>
             ELSE
             \E r \in {from_slice(blk)} :
                IF r.tag # "Some"
                THEN \* unwrap of None, or the panic inside from_slice
                     /\ done("panic", "decode", RecordLen, blk)
                     /\ fpc' = "panicked"
                     /\ UNCHANGED <<curr, yielded>>
                ELSE IF ~NumberMatches(r.rec, curr)
                THEN /\ done("panic", "mismatch", RecordLen, blk)
                     /\ fpc' = "panicked"
                     /\ UNCHANGED <<curr, yielded>>
                ELSE \* self.curr += 1; Some(record)
                     \E a \in {AddOne(curr, overflow_checks)} :
                        IF a.panic
                        THEN /\ done("panic", "overflow", RecordLen, blk)
                             /\ fpc' = "panicked"
                             /\ UNCHANGED <<curr, yielded>>
                        ELSE /\ done("Some", "record", RecordLen, blk)
                             /\ curr' = a.val
                             /\ yielded' = Append(yielded, r.rec)
                             /\ UNCHANGED fpc

----------------------------------------------------------------------------
(* RecordReader::get_data_for_record *)

\* How many bytes the file holds from record_data_offset on.
DataRegionLen == 12

\* A u32 below 2^31 as a natural number.
U32ToNat(w) == w[1] * LimbBase + w[2]

\* <u64 as TryInto<i64>>::try_into(x): an error from 2^63 on.  The value is
\* a natural number for the offsets the model uses, which are below 2^31.
TryIntoI64(w) == [ok |-> w[1] < Pow2(LimbBits - 1), val |-> U64ToNat(w)]

\* The byte of the file at an absolute position.
FileByteAt(p) == p % 256

\* The length of the file with a header.
FileLen(h) == U64ToNat(h.record_data_offset) + DataRegionLen

\* data_reader.seek_relative(delta): it fails when the position it asks for
\* is negative; a position past the end of the file is accepted.
SeekRelative(pos, delta) == [ok |-> pos + delta >= 0, pos |-> pos + delta]

\* data_reader.read_exact(buf) for a buf of n bytes: the bytes from the
\* position on, or an error when the file ends before n bytes (a read of
\* no bytes succeeds anywhere).
ReadExact(pos, n, file_len) ==
    IF n > 0 /\ pos + n > file_len THEN [ok |-> FALSE, data |-> <<>>]
    ELSE [ok |-> TRUE, data |-> [i \in 1..n |-> FileByteAt(pos + i - 1)]]

\* The mutant of SeekDelta: the seek is to the offset itself.
SeekDeltaAbsolute(off, tracked) == off

\* record.data_offset as i64 - self.curr_data_offset
SeekDelta(off, tracked) == off - tracked

\* The mutant of DataReadLen: the metadata is cut off when the
\* extra_metadata_present bit is set.
DataReadLenByFlag(record, exclude_metadata) ==
    IF exclude_metadata /\ record.extra_metadata_present
    THEN record.metadata_offset
    ELSE U32ToNat(record.data_len)

\* let data_read_len = if exclude_metadata && record.metadata_offset > 0
\*     { record.metadata_offset.into() } else { record.data_len.try_into().unwrap() };
DataReadLen(record, exclude_metadata) ==
    IF exclude_metadata /\ record.metadata_offset > 0
    THEN record.metadata_offset
    ELSE U32ToNat(record.data_len)

\* The mutant of NextDataOffset: the bytes read are not counted.
NextDataOffsetStale(off, n) == off

\* self.curr_data_offset = record.data_offset as i64 + buf.len() as i64
NextDataOffset(off, n) == off + n

\* The fields of a record a fetch uses.
FetchArgs(record) ==
    [data_len |-> record.data_len,
     metadata_offset |-> record.metadata_offset,
     extra_metadata_present |-> record.extra_metadata_present,
     data_offset |-> record.data_offset]

\* get_data_for_record on a reader at a position with a tracked offset: the
\* conversion of data_offset, the relative seek, the read and the update of
\* the tracked offset; each unwrap panics on an error.
get_data_for_record(pos, tracked, record, exclude_metadata, file_len) ==
    CHOOSE out \in
      {IF ~off.ok
       THEN [tag |-> "panic", why |-> "convert", dpos |-> pos,
             curr_data_offset |-> tracked, delta |-> 0, from |-> pos,
             data |-> <<>>]
       ELSE CHOOSE o2 \in
         {IF ~sk.ok
          THEN [tag |-> "panic", why |-> "seek", dpos |-> pos,
                curr_data_offset |-> tracked,
                delta |-> SeekDelta(off.val, tracked), from |-> pos,
                data |-> <<>>]
          ELSE CHOOSE o3 \in
            {IF ~rd.ok
             THEN [tag |-> "panic", why |-> "read", dpos |-> sk.pos,
                   curr_data_offset |-> tracked,
                   delta |-> SeekDelta(off.val, tracked), from |-> sk.pos,
                   data |-> <<>>]
             ELSE [tag |-> "Ok", why |-> "data",
                   dpos |-> sk.pos + Len(rd.data),
                   curr_data_offset |-> NextDataOffset(off.val, Len(rd.data)),
                   delta |-> SeekDelta(off.val, tracked), from |-> sk.pos,
                   data |-> rd.data] :
               rd \in {ReadExact(sk.pos,
                                 DataReadLen(record, exclude_metadata),
                                 file_len)}} : TRUE :
            sk \in {SeekRelative(pos, SeekDelta(off.val, tracked))}} : TRUE :
         off \in {TryIntoI64(record.data_offset)}} : TRUE

\* The mutant of IndependentCursor: the two readers share one cursor.
SharedCursor(pos, moved) == moved

\* pad_reader and data_reader come from two File::open calls, so each has
\* its own cursor: where one is moved to leaves the other where it was.
IndependentCursor(pos, moved) == pos

\* One call of get_data_for_record(record, exclude_metadata) on the
\* RecordReader of the open PadFile.
DoFetch(record, exclude_metadata) ==
    /\ fpc = "open"
    /\ \E res \in {get_data_for_record(dpos, curr_data_offset, record,
                                       exclude_metadata, FileLen(header.val))} :
          /\ fetch' = [record |-> FetchArgs(record),
                       exclude_metadata |-> exclude_metadata,
                       pos0 |-> dpos, offset0 |-> curr_data_offset,
                       delta |-> res.delta, from |-> res.from,
                       result |-> res.tag, why |-> res.why,
                       data |-> res.data]
          /\ dpos' = res.dpos
          /\ rpos' = IndependentCursor(rpos, res.dpos)
          /\ curr_data_offset' = res.curr_data_offset
          /\ fpc' = IF res.tag = "Ok" THEN fpc ELSE "panicked"
    /\ UNCHANGED <<overflow_checks, header, curr, last, rfile, call, yielded>>
    /\ UNCHANGED decodeVars
    /\ UNCHANGED headerVars

\* get_data_for_record_without_metadata(&record) or
\* get_all_data_for_record(&record) for the record the stream has just
\* returned, as the callers of the library do.
GetData ==
    /\ call.result = "Some"
    /\ \E exclude_metadata \in BOOLEAN :
          DoFetch(yielded[Len(yielded)], exclude_metadata)
    /\ UNCHANGED convVars

Next ==
    \/ OpenFails
    \/ OpenFile
    \/ HdrFill
    \/ HdrDecode
    \/ HdrRewind
    \/ OpenFinish
    \/ RecordsNext
    \/ GetData

Spec == Init /\ [][Next]_vars

----------------------------------------------------------------------------
(* get_data_for_record on its own: an open PadFile and fetches of any      *)
(* records in any order.                                                    *)

\* The headers of the files fetched from: the payload region at the start
\* of the file numbering, and further on.
FetchHeaders ==
    {RawHeader(1, 1, 1, <<0, 1>>, <<0, 3>>, <<0, 40>>, <<0, 8>>,
               <<0, 0, 0, 300>>, rdoff, <<0, 2>>) :
        rdoff \in {<<0, 0, 0, 0>>, <<0, 0, 0, 420>>}}

\* A record with the fields a fetch uses.
FetchRecord(len, mo, extra, off) ==
    [data_len |-> NatToU32(len), metadata_offset |-> mo,
     extra_metadata_present |-> extra, data_offset |-> off]

\* The records fetched: a first payload, one contiguous with it that has
\* trailing metadata, one after a gap with the extra-metadata bit but no
\* metadata offset, one whose metadata offset is past its payload, an empty
\* one, one that runs past the end of the file, and one whose offset does
\* not fit an i64.
FetchRecords ==
    {FetchRecord(3, 0, FALSE, <<0, 0, 0, 0>>),
     FetchRecord(4, 2, TRUE, <<0, 0, 0, 3>>),
     FetchRecord(2, 0, TRUE, <<0, 0, 0, 9>>),
     FetchRecord(1, 3, FALSE, <<0, 0, 0, 4>>),
     FetchRecord(0, 0, FALSE, <<0, 0, 0, 7>>),
     FetchRecord(5, 0, FALSE, <<0, 0, 0, DataRegionLen - 2>>),
     FetchRecord(1, 0, FALSE, <<Pow2(LimbBits - 1), 0, 0, 0>>)}

\* The PadFile that from_filename returns for a file with a header.
InitFetch ==
    /\ \E raw \in FetchHeaders :
         \E d \in {DecodeAttempt(EncodeHeader(raw))} :
            /\ HeaderSupported(d.header)
            /\ header = [tag |-> "Some", val |-> d.header]
            /\ curr = d.header.first_record_number
            /\ last = d.header.last_record_number
            /\ rpos = U64ToNat(d.header.records_offset)
            /\ dpos = NewRecordReader(d.header).dpos
            /\ curr_data_offset = NewRecordReader(d.header).curr_data_offset
    /\ fpc = "open"
    /\ overflow_checks \in BOOLEAN
    /\ rfile = <<>>
    /\ call = NoCall
    /\ yielded = <<>>
    /\ fetch = NoFetch
    /\ comments = <<>>
    /\ DecodeIdle
    /\ HeaderIdle

Fetch ==
    /\ \E record \in FetchRecords, exclude_metadata \in BOOLEAN :
          DoFetch(record, exclude_metadata)
    /\ UNCHANGED convVars

NextFetch == Fetch

SpecFetch == InitFetch /\ [][NextFetch]_vars

\* The last call of Records::next read a block of the file.
ReadBlock == call.result # "none" /\ call.read = RecordLen

\* first <= n <= last on u32.
InRange(n, first_n, last_n) == ~U32Gt(first_n, n) /\ ~U32Gt(n, last_n)

\* C1: every record Records::next returned has a number within
\* [first_record_number, last_record_number], and a call made with
\* current_expected_number > last_record_number returns None and reads no
\* byte of the records.
C1_YieldedWithinRange ==
    header.tag = "Some" =>
        /\ \A k \in 1..Len(yielded) :
              InRange(yielded[k].number, header.val.first_record_number, last)
        /\ (call.result # "none" /\ StreamExhausted(call.curr0, last))
              => (call.result = "None" /\ call.read = 0)

\* C2: a call that reads an all-zero block returns None without an error
\* and leaves the stream exhausted, and every call after it returns None
\* and reads nothing, whatever last_record_number is.
C2_SentinelEndsStream ==
    /\ (ReadBlock /\ IsNullRecord(call.block))
          => (call.result = "None" /\ StreamExhausted(curr, last))
    /\ call.after_sentinel => (call.result = "None" /\ call.read = 0)

\* C3: the k-th record returned has the number first_record_number + k - 1:
\* the first has first_record_number, and each later one has the number of
\* the one before it plus 1, as integers (so none follows 2^32 - 1).
C3_NumbersIncreaseByOne ==
    header.tag = "Some" =>
        \A k \in 1..Len(yielded) :
            IF k = 1
            THEN yielded[k].number = header.val.first_record_number
            ELSE /\ yielded[k - 1].number # U32Max
                 /\ yielded[k].number = WrappingAddOne(yielded[k - 1].number)

\* The last call read a record whose number is not the expected one.
MismatchedBlock ==
    /\ ReadBlock
    /\ ~IsNullRecord(call.block)
    /\ from_slice(call.block).tag = "Some"
    /\ from_slice(call.block).rec.number # call.curr0

\* C4: a call that reads a record whose number differs from
\* current_expected_number aborts with the record-number mismatch: it
\* returns no record, leaves current_expected_number as it was, and no call
\* follows it to read on.
C4_MismatchIsFatal ==
    MismatchedBlock =>
        /\ call.result = "panic"
        /\ call.why = "mismatch"
        /\ fpc = "panicked"
        /\ curr = call.curr0
        /\ Len(yielded) = call.count0

\* A skipped number met after two records were returned.
C4_Witness ==
    /\ MismatchedBlock
    /\ call.why = "mismatch"
    /\ Len(yielded) = 2
    /\ from_slice(call.block).rec.number = WrappingAddOne(call.curr0)

\* The blocks are the start of: records numbered n up to last_n, then the
\* sentinel (more: a record is still due).
RECURSIVE RecordsThenSentinel(_, _, _, _)
RecordsThenSentinel(blocks, n, last_n, more) ==
    IF Len(blocks) = 0 THEN TRUE
    ELSE IF ~more THEN Len(blocks) = 1 /\ IsNullRecord(Head(blocks))
    ELSE /\ ~IsNullRecord(Head(blocks))
         /\ from_slice(Head(blocks)).tag = "Some"
         /\ from_slice(Head(blocks)).rec.number = n
         /\ RecordsThenSentinel(Tail(blocks), WrappingAddOne(n), last_n,
                                n # last_n)

\* What was read of the file so far is records first..last and the sentinel,
\* or a start of that, with first <= last.
WellFormedFile ==
    /\ header.tag = "Some"
    /\ ~U32Gt(header.val.first_record_number, last)
    /\ RecordsThenSentinel(rfile, header.val.first_record_number, last, TRUE)

\* C5: on a file holding the records F..L and then the sentinel, the stream
\* returns every record it reads (L - F + 1 in all), no call fails while the
\* file still has the block to read, and the call that reads the sentinel
\* returns None and leaves the stream exhausted.
C5_YieldsAllThenNone ==
    WellFormedFile =>
        /\ call.result = "panic" => call.why = "eof"
        /\ IF Len(rfile) > 0 /\ IsNullRecord(rfile[Len(rfile)])
           THEN /\ Len(yielded) = Len(rfile) - 1
                /\ call.result = "None"
                /\ StreamExhausted(curr, last)
           ELSE Len(yielded) = Len(rfile)

\* from_filename has run to its end on a file that opened and whose header
\* was decoded.
HeaderParsed == fpc \in {"open", "panicked"} /\ hresult.tag = "Some"

\* C13: when the parsed header has record_len # 40 or
\* timestamp_array_size # 8, from_filename fails fatally: there is no
\* PadFile, neither cursor is at records_offset / record_data_offset, and no
\* record or payload is ever read; and the header of a PadFile that exists
\* has record_len = 40 and timestamp_array_size = 8.
C13_UnsupportedHeaderRejected ==
    /\ (/\ HeaderParsed
        /\ \/ hresult.header.record_len # <<0, 40>>
           \/ hresult.header.timestamp_array_size # <<0, 8>>)
          => /\ fpc = "panicked"
             /\ header.tag = "none"
             /\ rpos # U64ToNat(hresult.header.records_offset)
             /\ dpos # U64ToNat(hresult.header.record_data_offset)
             /\ rfile = <<>>
             /\ call = NoCall
             /\ fetch = NoFetch
    /\ fpc = "open"
          => /\ header.tag = "Some"
             /\ header.val.record_len = <<0, 40>>
             /\ header.val.timestamp_array_size = <<0, 8>>

\* A file with record_len = 40 and timestamp_array_size = 7 was rejected.
C13_Witness ==
    /\ HeaderParsed
    /\ fpc = "panicked"
    /\ hresult.header.record_len = <<0, 40>>
    /\ hresult.header.timestamp_array_size = <<0, 7>>

\* C14, as stated: the tracked offset starts at the header's
\* record_data_offset, and right after open and after every fetch it is the
\* absolute position of the payload cursor in the file.
C14_TrackedOffsetIsAbsolute ==
    fpc = "open" =>
        /\ fetch = NoFetch
              => curr_data_offset = U64ToNat(header.val.record_data_offset)
        /\ curr_data_offset = dpos

\* C14, amended: the tracked offset starts at 0 and counts from
\* record_data_offset: right after open and after every fetch the absolute
\* position of the payload cursor is record_data_offset + the tracked offset.
C14_TrackedOffsetIsRelative ==
    fpc = "open" =>
        /\ fetch = NoFetch => curr_data_offset = 0
        /\ dpos = U64ToNat(header.val.record_data_offset) + curr_data_offset

\* A second fetch has returned, in a file whose payload region does not
\* start at 0.
C14_Witness ==
    /\ fpc = "open"
    /\ fetch.result = "Ok"
    /\ fetch.offset0 > 0
    /\ curr_data_offset > fetch.offset0
    /\ U64ToNat(header.val.record_data_offset) > 0

\* C15: a fetch that returns has read and returned data_len bytes in the
\* full-payload mode; in the without-metadata mode metadata_offset bytes when
\* metadata_offset > 0 and data_len bytes when it is 0, whatever the
\* extra_metadata_present bit is.
C15_ReadLength ==
    fetch.result = "Ok" =>
        /\ Len(fetch.data) =
              (IF ~fetch.exclude_metadata
               THEN U32ToNat(fetch.record.data_len)
               ELSE IF fetch.record.metadata_offset > 0
               THEN fetch.record.metadata_offset
               ELSE U32ToNat(fetch.record.data_len))
        /\ dpos = fetch.from + Len(fetch.data)

\* A without-metadata fetch of a record with the extra_metadata_present bit
\* set and metadata_offset = 0 returned the whole payload.
C15_Witness ==
    /\ fetch.result = "Ok"
    /\ fetch.exclude_metadata
    /\ fetch.record.extra_metadata_present
    /\ fetch.record.metadata_offset = 0
    /\ Len(fetch.data) = 2

\* C16: a fetch seeks by delta = record.data_offset - the tracked offset,
\* from where the cursor is, and on return sets the tracked offset to
\* record.data_offset + the number of bytes read; so a fetch of r directly
\* after a fetch of p seeks by r.data_offset - (p.data_offset + read_len(p)).
C16_RelativeSeek ==
    [][(fpc = "open" /\ fetch'.why \in {"data", "read"}) =>
          /\ fetch'.delta =
                U64ToNat(fetch'.record.data_offset) - curr_data_offset
          /\ fetch'.from = dpos + fetch'.delta
          /\ fetch'.result = "Ok" =>
                curr_data_offset' =
                    U64ToNat(fetch'.record.data_offset) + Len(fetch'.data)
          /\ fetch.result = "Ok" =>
                fetch'.delta =
                    U64ToNat(fetch'.record.data_offset)
                    - (U64ToNat(fetch.record.data_offset) + Len(fetch.data))
      ]_vars

\* A fetch across a gap of two bytes after an earlier fetch.
C16_Witness ==
    /\ fetch.result = "Ok"
    /\ fetch.offset0 = 7
    /\ fetch.delta = 2
    /\ fetch.record.data_offset = <<0, 0, 0, 9>>

\* from_filename is over on a file that opened and whose header could not
\* be decoded.
HeaderNotDecoded ==
    /\ fpc \notin {"start", "header", "io_error"}
    /\ hpc \in {"done", "panicked"}
    /\ hresult.tag # "Some"

\* C17: from_filename reports its failures through its return value: an
\* I/O failure for a file that cannot be opened, a Malformed failure for a
\* file whose header cannot be decoded, and no PadFile in either case.
C17_FailuresAreReturned ==
    /\ fpc = "io_error" => header.tag = "none"
    /\ HeaderNotDecoded => (fpc = "malformed" /\ header.tag = "none")

\* C18: after a decode attempt that needs N more bytes the stream is
\* rewound by the length of the buffer, so every read attempt starts at the
\* position where header parsing began; the next attempt reads the previous
\* buffer length + N bytes from there, and the decode is over the whole
\* buffer, from its byte 0.
C18_RewindAndRetry ==
    [][/\ hpc = "fill" => spos = hstart
       /\ (hpc = "decode" /\ hpc' = "rewind") =>
             /\ expand' = DecodeAttempt(buffer).need
             /\ spos' = spos
       /\ (hpc = "rewind" /\ hpc' = "fill") =>
             /\ spos' = spos - Len(buffer)
             /\ spos' = hstart
             /\ buffer' = buffer
       /\ (hpc = "fill" /\ hpc' = "decode") =>
             /\ Len(buffer') = Len(buffer) + expand
             /\ buffer' = SubSeq(stream, hstart + 1, hstart + Len(buffer'))
             /\ spos' = hstart + Len(buffer')
      ]_vars

\* A read attempt about to start after several retries, in a source with
\* bytes before the header.
C18_Witness ==
    /\ hpc = "fill"
    /\ iters >= 3
    /\ hstart > 0
    /\ Len(buffer) > 0
    /\ expand > 0
    /\ spos = hstart

\* The parsers of the header, and those of them that are strings.
NumFields == Len(HeaderParsers)
NumStrings ==
    Cardinality({i \in 1..Len(HeaderParsers) : HeaderParsers[i] = "string"})

\* The passes of the loop body begun so far.
Passes == IF hpc \in {"idle", "fill"} THEN iters ELSE iters + 1

\* The deficit reported is at least 1, and the buffer is never longer, nor
\* about to be made longer, than the header in the source.
GrowthMakesProgress ==
    /\ hpc = "rewind" => expand >= 1
    /\ (hpc # "idle" /\ WholeHeaderAvailable) =>
          /\ Len(buffer) <= TrueHeaderLen
          /\ hpc = "fill" => Len(buffer) + expand <= TrueHeaderLen

\* C19, as stated: growth makes progress and never overshoots, so the
\* number of iterations of the loop is at most the number of header fields
\* plus the number of strings.
C19_IterationsBoundedByFields ==
    /\ GrowthMakesProgress
    /\ Passes <= NumFields + NumStrings

\* C19, amended: growth makes progress and never overshoots, so the number
\* of retries is at most the number of header fields plus the number of
\* strings, and the number of iterations of the loop one more than that.
C19_RetriesBoundedByFields ==
    /\ GrowthMakesProgress
    /\ iters <= NumFields + NumStrings
    /\ Passes <= NumFields + NumStrings + 1

\* A header whose nine strings are all non-empty, returned after a retry
\* for each field and one more for each string.
C19_Witness ==
    /\ hpc = "done"
    /\ hresult.tag = "Some"
    /\ iters = NumFields + NumStrings
    /\ Passes = NumFields + NumStrings + 1

\* C20: when the source ends before the header is complete, from_bufreader
\* ends in the panic of the read that cannot be satisfied and stays there:
\* it does not go on retrying and it never returns a header.
C20_ShortSourceIsFatal ==
    (hpc = "fill" /\ iters = 0 /\ ~WholeHeaderAvailable)
        => /\ <>[](/\ hpc = "panicked"
                   /\ hresult.tag = "panic"
                   /\ spos + Len(buffer) + expand > Len(stream))
           /\ [](hresult.tag \notin {"Some", "None"})

\* The read failed after many passes, on a source that holds bytes before
\* the header and is cut short inside it.
C20_Witness ==
    /\ hpc = "panicked"
    /\ hresult.tag = "panic"
    /\ iters >= 10
    /\ hstart > 0
    /\ spos + Len(buffer) + expand > Len(stream)

\* What the fetch of the latest call would do as the first fetch after open.
FirstFetch ==
    get_data_for_record(NewRecordReader(header.val).dpos,
                        NewRecordReader(header.val).curr_data_offset,
                        fetch.record, fetch.exclude_metadata,
                        FileLen(header.val))

\* C21: whatever fetches came before, in whatever order, a fetch reads from
\* the position record_data_offset + record.data_offset and returns the
\* bytes there, the same bytes and as many as it would as the first fetch
\* after open.
C21_FetchIndependentOfHistory ==
    (fetch.result = "Ok" /\ header.tag = "Some") =>
        /\ fetch.from = U64ToNat(header.val.record_data_offset)
                        + U64ToNat(fetch.record.data_offset)
        /\ fetch.data = [i \in 1..Len(fetch.data) |->
                            FileByteAt(fetch.from + i - 1)]
        /\ FirstFetch.tag = "Ok"
        /\ FirstFetch.from = fetch.from
        /\ FirstFetch.data = fetch.data

\* A fetch that sought backwards after an earlier fetch and returned bytes.
C21_Witness ==
    /\ fetch.result = "Ok"
    /\ fetch.offset0 > 0
    /\ fetch.delta < 0
    /\ Len(fetch.data) > 0

\* C22: a step that changes the record stream (its cursor, its expected
\* number, its latest call) leaves the payload cursor, the tracked offset and
\* the header as they were; a step that changes the payload reader (its
\* cursor, its tracked offset, its latest fetch) leaves the record cursor,
\* the expected number, last_record_number and the header as they were.
C22_CursorsIndependent ==
    [][fpc = "open" =>
          /\ (rpos' # rpos \/ curr' # curr \/ call' # call) =>
                /\ dpos' = dpos
                /\ curr_data_offset' = curr_data_offset
                /\ fetch' = fetch
                /\ header' = header
                /\ last' = last
          /\ (dpos' # dpos \/ curr_data_offset' # curr_data_offset
                \/ fetch' # fetch) =>
                /\ rpos' = rpos
                /\ curr' = curr
                /\ last' = last
                /\ rfile' = rfile
                /\ call' = call
                /\ yielded' = yielded
                /\ header' = header
      ]_vars

\* Two records were returned and the payload of each was fetched.
C22_Witness ==
    /\ fpc = "open"
    /\ call.result = "Some"
    /\ Len(yielded) = 2
    /\ fetch.result = "Ok"
    /\ fetch.offset0 > 0
    /\ fetch.record = FetchArgs(yielded[2])

AllZero(block) == \A i \in 1..Len(block) : block[i] = 0

\* C24: a block read is treated as the sentinel exactly when all its 40
\* bytes are zero.  A block with a non-zero byte, its number 0 or not, is
\* decoded and checked as a record: returned when its number is the one
\* expected, a mismatch otherwise.  A block of 40 zero bytes is never decoded
\* or returned as a record, also when the expected number is 0.
C24_SentinelIffAllZero ==
    /\ (ReadBlock /\ AllZero(call.block)) =>
          /\ call.why \in {"sentinel", "overflow"}
          /\ call.result # "Some"
          /\ Len(yielded) = call.count0
    /\ (ReadBlock /\ ~AllZero(call.block)) =>
          /\ call.why \in {"record", "mismatch", "overflow"}
          /\ call.why = "mismatch"
                <=> from_slice(call.block).rec.number # call.curr0
          /\ call.why = "record" =>
                /\ call.result = "Some"
                /\ yielded[Len(yielded)] = from_slice(call.block).rec
    /\ \A k \in 1..Len(yielded) : yielded[k] # from_slice(ZeroBlock).rec

\* The block with one non-zero byte and number 0 was returned as record 0.
C24_Witness ==
    /\ ReadBlock
    /\ call.block = AlmostZeroBlock
    /\ call.curr0 = <<0, 0>>
    /\ call.result = "Some"
    /\ yielded[Len(yielded)].data_offset = <<0, 0, 0, 1>>

\* a <= b + 1 as integers, for u32 a and b.
LeqPlusOne(a, b) == b = U32Max \/ ~U32Gt(a, WrappingAddOne(b))

\* The latest call was made after the record numbered last_record_number
\* had been returned.
AfterLastRecord ==
    /\ call.result # "none"
    /\ call.count0 > 0
    /\ call.count0 <= Len(yielded)
    /\ yielded[call.count0].number = last

\* C25: the counter of the record stream never wraps: it is at most
\* last_record_number + 1 as an integer (or still first_record_number), no
\* addition on it overflows, whatever last_record_number is, and a call made
\* after the record numbered last_record_number was returned, or after a
\* sentinel, returns None.
C25_CounterNeverWraps ==
    header.tag = "Some" =>
        /\ LeqPlusOne(curr, last) \/ curr = header.val.first_record_number
        /\ call.why # "overflow"
        /\ call.why = "record" => call.curr0 # U32Max
        /\ call.why = "sentinel" => last # U32Max
        /\ (call.after_sentinel \/ AfterLastRecord) => call.result = "None"

\* The full payload of the record of the latest fetch: its data_len bytes
\* from record_data_offset + data_offset on.
FullPayload ==
    [i \in 1..U32ToNat(fetch.record.data_len) |->
        FileByteAt(U64ToNat(header.val.record_data_offset)
                   + U64ToNat(fetch.record.data_offset) + i - 1)]

\* C26: in both modes a fetch returns at most data_len bytes, and what it
\* returns is a prefix of the full payload of the record.
C26_AtMostFullPayload ==
    (fetch.result = "Ok" /\ header.tag = "Some") =>
        /\ Len(fetch.data) <= U32ToNat(fetch.record.data_len)
        /\ fetch.data = SubSeq(FullPayload, 1, Len(fetch.data))

----------------------------------------------------------------------------
\* The record loop of pad2pcapng's main (pad2pcapng.rs:159-272), run on an
\* opened file: for each record the stream returns, the body asserts
\* count = 1, fetches all the data of the record, writes the packet block and
\* decides whether the trigger comment goes with it.

\* The record numbers the headers of the conversion are built from.
ConvNumbers == {<<0, 0>>, <<0, 1>>, <<0, 2>>, U32Max}

\* The headers of the converted files: every combination of first, last and
\* trigger record number, so the trigger lies inside the range, below
\* first_record_number, above last_record_number, and the range may be empty.
ConvHeaders ==
    {RawHeader(1, 1, 1, f, l, <<0, 40>>, <<0, 8>>,
               <<0, 0, 0, 200>>, <<0, 0, 0, 400>>, t) :
        f \in ConvNumbers, l \in ConvNumbers, t \in ConvNumbers}

\* PadFile::from_filename has returned Ok: the state main starts its loop in.
InitConvert ==
    /\ \E raw \in ConvHeaders :
         \E d \in {DecodeAttempt(EncodeHeader(raw))} :
            /\ HeaderSupported(d.header)
            /\ header = [tag |-> "Some", val |-> d.header]
            /\ curr = d.header.first_record_number
            /\ last = d.header.last_record_number
            /\ rpos = U64ToNat(d.header.records_offset)
            /\ dpos = NewRecordReader(d.header).dpos
            /\ curr_data_offset = NewRecordReader(d.header).curr_data_offset
    /\ fpc = "open"
    /\ overflow_checks \in BOOLEAN
    /\ rfile = <<>>
    /\ call = NoCall
    /\ yielded = <<>>
    /\ fetch = NoFetch
    /\ comments = <<>>
    /\ DecodeIdle
    /\ HeaderIdle

\* The condition under which the comment option is added to the block of a
\* record.
AttachesTriggerComment(record, h) ==
    \/ record.number = h.trigger_record_number
    \/ /\ record.number = h.first_record_number
       /\ U32Gt(h.first_record_number, h.trigger_record_number)
    \/ /\ record.number = h.last_record_number
       /\ U32Gt(h.trigger_record_number, h.last_record_number)

\* The for loop asks the stream for its next record; it does so only when
\* the body has finished with the previous one.
ConvNext ==
    /\ Len(comments) = Len(yielded)
    /\ call.result # "None"
    /\ RecordsNext

\* The body of the loop for the record just returned.
EncodeRecord ==
    /\ fpc = "open"
    /\ Len(comments) < Len(yielded)
    /\ LET record == yielded[Len(comments) + 1] IN
       IF record.count # <<0, 0, 0, 1>>
       THEN \* assert_eq!(record.count, 1) panics
            /\ fpc' = "panicked"
            /\ UNCHANGED <<overflow_checks, header, curr, last, rpos, rfile,
                           call, yielded>>
            /\ UNCHANGED readerVars
            /\ UNCHANGED convVars
            /\ UNCHANGED decodeVars
            /\ UNCHANGED headerVars
       ELSE /\ DoFetch(record, FALSE)
            /\ comments' =
                 IF fetch'.result = "Ok"
                 THEN Append(comments,
                             AttachesTriggerComment(record, header.val))
                 ELSE comments

NextConvert ==
    \/ ConvNext
    \/ EncodeRecord

SpecConvert == InitConvert /\ [][NextConvert]_vars

\* The number of records the comment was attached to.
NumComments == Cardinality({k \in 1..Len(comments) : comments[k]})

\* The record numbered last_record_number has been returned and encoded, in
\* a file whose range is not empty.
LastRecordEncoded ==
    /\ ~U32Gt(header.val.first_record_number, last)
    /\ \E k \in 1..Len(comments) : yielded[k].number = last

\* C27: during one conversion the trigger comment is attached to at most one
\* record, wherever trigger_record_number lies, and once the stream has
\* returned every record from first_record_number to last_record_number it
\* has been attached to exactly one.
C27_OneTriggerComment ==
    header.tag = "Some" =>
        /\ NumComments <= 1
        /\ LastRecordEncoded => NumComments = 1

============================================================================
